---- MODULE Spec2Model ----
(***************************************************************************)
(* State-machine model of the relo store backend: catalog, cart, checkout  *)
(* (create_order), customer cancel and seller order/product updates, the   *)
(* one-time codes (otp routes), sign-up and token validation.              *)
(*                                                                         *)
(* Conventions                                                             *)
(*  - Tables are sets of row records; autoincrement keys are counters.     *)
(*  - Money is an integer number of ten-thousandths (Unit = 1.00).  Catalog *)
(*    prices carry two decimals, so every product the routes compute in    *)
(*    floating point is exact on that grid; the DECIMAL(10,2) columns of   *)
(*    orders / order_items round what they store to hundredths.            *)
(*  - The tables are the ones the routes read and write: cart.user_id     *)
(*    (users.id), products.stock / seller_id, orders.seller_id.  The ORM   *)
(*    classes under models/ declare some of these columns under other      *)
(*    names or not at all; the model follows the routes.                   *)
(*  - Each request runs in its own SQLAlchemy session.  Handlers that      *)
(*    commit once are one action.  create_order is cut at its statement    *)
(*    boundaries (read cart / validate / flush order / items+delete+commit)*)
(*    so that requests served by different server processes interleave the *)
(*    way read-committed statements do.  add_to_cart, GET /cart, store_otp *)
(*    and sign_up have a second form cut between their read and their      *)
(*    write, for the same purpose.                                         *)
(*  - resp is the HTTP response of the step just taken (NoResp when the    *)
(*    step returns nothing yet).                                           *)
(***************************************************************************)
EXTENDS Integers, Sequences, FiniteSets, TLC

\* ------------------------------------------------------------------ bounds
MaxCartId == 2
MaxOrderId == 2
MaxLineQty == 2
MaxOtpId == 2
MaxTicks == 3
MaxUserId == 5
MaxProductId == 3

\* ------------------------------------------------------ program constants
Cent == 100
Unit == Cent * Cent
FreeShippingThreshold == 1000
FlatShippingFee == 10
TaxRatePercent == 12
MinQuantity == 1
MaxQuantity == 10
OtpExpiryMinutes == 10
max_attempts == 3

\* ------------------------------------------------------------ input sets
Users == {1, 2, 3}
CartUsers == {1, 2}
Pids == {1, 2}
Prices == {600 * Unit, 99 * Cent}
Stocks == {0, 1}
Qtys == {0, 1, 2, 11}
LimitQtys == {MinQuantity - 1, MinQuantity, MaxQuantity, MaxQuantity + 1}
Sessions == {1, 2}
Emails == {"alice@relo", "nobody@relo"}
Purposes == {"verification", "password_reset"}
\* the codes generate_otp draws, six digits each
Codes == {"271828", "314159"}
Usernames == {"alice", "dave", "erin"}
SignUpEmails == {"alice@relo", "dave@relo", "erin@relo"}
\* the optional field role that was sent as null
NoRole == ""
Roles == {"customer", "Seller", "admin", NoRole}
\* the sub claim a token lacks
NoSub == ""
\* the tokens a request may carry: of either type or of none, for a user, for
\* nobody or without a subject, accepted by jwt.decode or not
Tokens == [sub : Usernames \cup {NoSub}, type : {"access", "refresh", ""}, valid : BOOLEAN]
\* the clock advances by half the lifetime of a code
TickMinutes == OtpExpiryMinutes \div 2
SellerIds == {7, 8}
StatusInputs == {"Processing", "SHIPPED", "delivered", "pending", "cancelled", "refunded"}
\* an optional form field that was not sent (Form(None))
NoValue == -1
\* the optional query parameter purpose that was not sent (None)
NoPurpose == ""

\* the catalog the store starts with: product 1 costs 100, product 2 costs 50
InitialPrice == (1 :> 100 * Unit) @@ (2 :> 50 * Unit)
\* ids of the products table: those of Pids are stored from the start, the
\* others are handed out by the autoincrement column
ProductIds == Pids \cup (1..MaxProductId)

\* a value stored in a DECIMAL(10,2) column: rounded to the nearest hundredth
Decimal2(x) == ((x + Cent \div 2) \div Cent) * Cent

\* users 1 and 2 carry a Customer profile (customers.id 11, 12); user 3 is a
\* seller account without one (current_user.customer is None)
customer == (1 :> 11) @@ (2 :> 12) @@ (3 :> 0)

\* OrderStatus members, by name (the value SQLEnum(OrderStatus) persists)
OrderStatus == {"PENDING", "PROCESSING", "SHIPPED", "DELIVERED", "CANCELLED"}

\* str.upper() on the status strings the seller route is given
upper(str) ==
  CASE str = "Processing" -> "PROCESSING"
    [] str = "SHIPPED"    -> "SHIPPED"
    [] str = "delivered"  -> "DELIVERED"
    [] str = "pending"    -> "PENDING"
    [] str = "cancelled"  -> "CANCELLED"
    [] str = "refunded"   -> "REFUNDED"

\* StockStatus members, by value (what the routes compare and assign)
StockStatus == {"in_stock", "out_of_stock", "pre_order"}

VARIABLES products, cart, nextCartId, orders, nextOrderId, items, sess, resp,
          adds, otps, nextOtpId, now, issues, users, sellers, customers, nextUserId,
          signups, verifies, compared

\* the store: catalog, cart, orders and the checkout requests in flight
storeVars == <<products, cart, nextCartId, orders, nextOrderId, items, sess>>

\* add_to_cart requests in flight
addVars == <<adds>>

\* the otps table, the clock, the store_otp calls and the verify_otp calls in
\* flight; compared is no state of the program: it counts, for every row of
\* otps, the guesses verify_otp has compared with the otp_hash of the row (0 for
\* an id without a row)
otpVars == <<otps, nextOtpId, now, issues, verifies, compared>>

\* the users, sellers and customers tables and the sign-ups in flight
authVars == <<users, sellers, customers, nextUserId, signups>>

vars == <<storeVars, resp, addVars, otpVars, authVars>>

\* ---------------------------------------------------------------- helpers
MinId(S) == CHOOSE r \in S : \A r2 \in S : r.id <= r2.id

Response(op, code, detail, ref) ==
  [op |-> op, code |-> code, detail |-> detail, ref |-> ref]

NoResp == Response("none", 0, "", 0)

IdleSession == [pc |-> "idle", user |-> 0, cart_items |-> {}, prods |-> {}, order_id |-> 0]

\* no add_to_cart request is being served by the process
IdleAdd == [pc |-> "idle", user |-> 0, product_id |-> 0, quantity |-> 0, existing |-> {}]

\* db.query(Product).filter(Product.id == pid).first()
QueryProduct(pid) == IF products[pid].exists THEN {products[pid]} ELSE {}

\* db.query(Cart).filter(Cart.user_id == u).all()
QueryCart(u) == {r \in cart : r.user_id = u}

\* rows of orders that are committed (visible to other sessions)
Committed == {o \in orders : o.txn = 0}

\* pydantic validator of AddToCartRequest / UpdateCartItemRequest
quantity_validator(v) == ~(v < MinQuantity) /\ ~(v > MaxQuantity)

\* no store_otp call is running in the process
IdleIssue == [pc |-> "idle", op |-> "", email |-> "", purpose |-> "", otp |-> "", deleted |-> {}]

\* no verify_otp call is running in the process
IdleVerify == [pc |-> "idle", otp |-> "", record |-> {}]

\* hashlib.sha256(otp.encode()).hexdigest(): the digest stands for its input
\* and for nothing else (no collision among the codes)
sha256(otp) == <<"sha256", otp>>

\* no sign-up is being served by the process
IdleSignUp == [pc |-> "idle", username |-> "", email |-> "", role |-> ""]

\* the accounts the store starts with: customers 1 and 2, seller 3
InitialUsers ==
  {[id |-> 1, username |-> "alice", email |-> "alice@relo", role |-> "customer"],
   [id |-> 2, username |-> "bob", email |-> "bob@relo", role |-> "customer"],
   [id |-> 3, username |-> "carol", email |-> "carol@relo", role |-> "seller"]}

\* ------------------------------------------------------------------- Init
Init ==
  /\ products = [p \in ProductIds |->
        IF p \in Pids
        THEN [id |-> p, exists |-> TRUE, seller_id |-> 7, price |-> InitialPrice[p],
              stock |-> 1, stock_status |-> "in_stock"]
        ELSE [id |-> p, exists |-> FALSE, seller_id |-> 0, price |-> 0,
              stock |-> 0, stock_status |-> "out_of_stock"]]
  /\ cart = {}
  /\ nextCartId = 1
  /\ orders = {}
  /\ nextOrderId = 1
  /\ items = {}
  /\ sess = [s \in Sessions |-> IdleSession]
  /\ resp = NoResp
  /\ adds = [s \in Sessions |-> IdleAdd]
  /\ otps = {}
  /\ nextOtpId = 1
  /\ now = 0
  /\ issues = [s \in Sessions |-> IdleIssue]
  /\ verifies = [s \in Sessions |-> IdleVerify]
  /\ compared = [id \in 1..MaxOtpId |-> 0]
  /\ users = InitialUsers
  /\ sellers = {[user_id |-> u.id] : u \in {x \in InitialUsers : x.role = "seller"}}
  /\ customers = {[user_id |-> u.id] : u \in {x \in InitialUsers : x.role = "customer"}}
  /\ nextUserId = Cardinality(InitialUsers) + 1
  /\ signups = [s \in Sessions |-> IdleSignUp]

\* ------------------------------------------------------------ cart routes
\* an add that overwrites the quantity of the existing row
CartAfterAdd_overwrites(u, p, q) ==
  LET existing == {r \in cart : r.user_id = u /\ r.product_id = p} IN
  IF existing # {}
  THEN LET e == MinId(existing) IN
       (cart \ {e}) \cup {[e EXCEPT !.quantity = q]}
  ELSE cart \cup {[id |-> nextCartId, user_id |-> u, product_id |-> p, quantity |-> q]}

\* the row add_to_cart writes: an existing (user, product) row gets its
\* quantity incremented, otherwise a new row is inserted
CartAfterAdd(u, p, q) ==
  LET existing == {r \in cart : r.user_id = u /\ r.product_id = p} IN
  IF existing # {}
  THEN LET e == MinId(existing) IN
       (cart \ {e}) \cup {[e EXCEPT !.quantity = e.quantity + q]}
  ELSE cart \cup {[id |-> nextCartId, user_id |-> u, product_id |-> p, quantity |-> q]}

add_to_cart(u, p, q) ==
  /\ UNCHANGED <<addVars, otpVars, authVars>>
  /\ UNCHANGED <<products, orders, nextOrderId, items, sess>>
  /\ IF ~quantity_validator(q)
     THEN /\ resp' = Response("add_to_cart", 422, "validation_error", 0)
          /\ UNCHANGED <<cart, nextCartId>>
     ELSE IF QueryProduct(p) = {}
     THEN /\ resp' = Response("add_to_cart", 404, "product_not_found", 0)
          /\ UNCHANGED <<cart, nextCartId>>
     ELSE IF products[p].stock_status = "out_of_stock"
     THEN /\ resp' = Response("add_to_cart", 400, "out_of_stock", 0)
          /\ UNCHANGED <<cart, nextCartId>>
     ELSE /\ cart' = CartAfterAdd(u, p, q)
          /\ nextCartId' = IF \E r \in cart : r.user_id = u /\ r.product_id = p
                           THEN nextCartId ELSE nextCartId + 1
          /\ resp' = Response("add_to_cart", 201, "ok", 0)

RECURSIVE SumQuantity(_)
SumQuantity(lines) ==
  IF lines = {} THEN 0
  ELSE LET l == MinId(lines) IN l.quantity + SumQuantity(lines \ {l})

RECURSIVE SumSubtotal(_)
SumSubtotal(lines) ==
  IF lines = {} THEN 0
  ELSE LET l == MinId(lines) IN
       products[l.product_id].price * l.quantity + SumSubtotal(lines \ {l})

\* a cart view that prices every line it is given, the product row gone or not
calculate_cart_response_keeps_missing(cart_items) ==
  [items |-> {[id |-> l.id, product_id |-> l.product_id, quantity |-> l.quantity,
               price |-> products[l.product_id].price,
               subtotal |-> products[l.product_id].price * l.quantity] : l \in cart_items},
   total_items |-> SumQuantity(cart_items),
   total_amount |-> SumSubtotal(cart_items)]

\* calculate_cart_response: each line's product is queried now; a line whose
\* product row is gone is skipped, the others are priced at the current price
calculate_cart_response(cart_items) ==
  LET priced == {l \in cart_items : QueryProduct(l.product_id) # {}} IN
  [items |-> {[id |-> l.id, product_id |-> l.product_id, quantity |-> l.quantity,
               price |-> products[l.product_id].price,
               subtotal |-> products[l.product_id].price * l.quantity] : l \in priced},
   total_items |-> SumQuantity(priced),
   total_amount |-> SumSubtotal(priced)]

\* GET /cart up to its SELECT of the caller's cart rows (line 80)
get_cart_read(s, u) ==
  /\ sess[s].pc = "idle"
  /\ UNCHANGED <<addVars, otpVars, authVars>>
  /\ UNCHANGED <<products, cart, nextCartId, orders, nextOrderId, items>>
  /\ sess' = [sess EXCEPT ![s] = [pc |-> "view", user |-> u,
                  cart_items |-> QueryCart(u), prods |-> {}, order_id |-> 0]]
  /\ resp' = NoResp

\* the rest of GET /cart: the view of the rows it read, carried by the answer
get_cart_respond(s) ==
  /\ sess[s].pc = "view"
  /\ UNCHANGED <<addVars, otpVars, authVars>>
  /\ UNCHANGED <<products, cart, nextCartId, orders, nextOrderId, items>>
  /\ sess' = [sess EXCEPT ![s] = IdleSession]
  /\ resp' = Response("get_cart", 200, "ok", calculate_cart_response(sess[s].cart_items))

\* add_to_cart up to its SELECT of the caller's row of the product (lines
\* 103-126), for a request served next to others by another server process
add_to_cart_read(s, u, p, q) ==
  /\ adds[s].pc = "idle"
  /\ UNCHANGED <<storeVars, otpVars, authVars>>
  /\ IF ~quantity_validator(q)
     THEN /\ resp' = Response("add_to_cart", 422, "validation_error", 0)
          /\ UNCHANGED adds
     ELSE IF QueryProduct(p) = {}
     THEN /\ resp' = Response("add_to_cart", 404, "product_not_found", 0)
          /\ UNCHANGED adds
     ELSE IF products[p].stock_status = "out_of_stock"
     THEN /\ resp' = Response("add_to_cart", 400, "out_of_stock", 0)
          /\ UNCHANGED adds
     ELSE LET existing == {r \in cart : r.user_id = u /\ r.product_id = p} IN
          /\ adds' = [adds EXCEPT ![s] =
                        [pc |-> "commit", user |-> u, product_id |-> p, quantity |-> q,
                         existing |-> IF existing = {} THEN {} ELSE {MinId(existing)}]]
          /\ resp' = NoResp

\* the rest of add_to_cart (lines 128-149): the UPDATE of the row the request
\* read, with the quantity computed from what it read, or the INSERT of a new
\* row, then db.commit().  An UPDATE that matches no row any more and an INSERT
\* for a product that is gone raise, and the except branch answers 500.
add_to_cart_commit(s) ==
  /\ adds[s].pc = "commit"
  /\ UNCHANGED <<products, orders, nextOrderId, items, sess, otpVars, authVars>>
  /\ adds' = [adds EXCEPT ![s] = IdleAdd]
  /\ LET a == adds[s] IN
     IF a.existing # {}
     THEN LET e == MinId(a.existing) IN
          IF \E r \in cart : r.id = e.id
          THEN /\ cart' = {IF r.id = e.id
                           THEN [r EXCEPT !.quantity = e.quantity + a.quantity]
                           ELSE r : r \in cart}
               /\ UNCHANGED nextCartId
               /\ resp' = Response("add_to_cart", 201, "ok", 0)
          ELSE /\ UNCHANGED <<cart, nextCartId>>
               /\ resp' = Response("add_to_cart", 500, "storage_error", 0)
     ELSE IF QueryProduct(a.product_id) = {}
     THEN /\ UNCHANGED <<cart, nextCartId>>
          /\ resp' = Response("add_to_cart", 500, "storage_error", 0)
     ELSE /\ cart' = cart \cup {[id |-> nextCartId, user_id |-> a.user,
                                 product_id |-> a.product_id, quantity |-> a.quantity]}
          /\ nextCartId' = nextCartId + 1
          /\ resp' = Response("add_to_cart", 201, "ok", 0)

update_cart_item(u, cid, q) ==
  /\ UNCHANGED <<addVars, otpVars, authVars>>
  /\ UNCHANGED <<products, orders, nextOrderId, items, sess, nextCartId>>
  /\ IF ~quantity_validator(q)
     THEN /\ resp' = Response("update_cart_item", 422, "validation_error", 0)
          /\ UNCHANGED cart
     ELSE LET found == {r \in cart : r.id = cid /\ r.user_id = u} IN
          IF found = {}
          THEN /\ resp' = Response("update_cart_item", 404, "cart_item_not_found", 0)
               /\ UNCHANGED cart
          ELSE LET r == MinId(found) IN
               /\ cart' = (cart \ {r}) \cup {[r EXCEPT !.quantity = q]}
               /\ resp' = Response("update_cart_item", 200, "ok", 0)

\* a remove that finds the row by its id alone
remove_from_cart_any_user(u, cid) ==
  /\ UNCHANGED <<addVars, otpVars, authVars>>
  /\ UNCHANGED <<products, orders, nextOrderId, items, sess, nextCartId>>
  /\ LET found == {r \in cart : r.id = cid} IN
     IF found = {}
     THEN /\ resp' = Response("remove_from_cart", 404, "cart_item_not_found", 0)
          /\ UNCHANGED cart
     ELSE /\ cart' = cart \ found
          /\ resp' = Response("remove_from_cart", 200, "ok", 0)

remove_from_cart(u, cid) ==
  /\ UNCHANGED <<addVars, otpVars, authVars>>
  /\ UNCHANGED <<products, orders, nextOrderId, items, sess, nextCartId>>
  /\ LET found == {r \in cart : r.id = cid /\ r.user_id = u} IN
     IF found = {}
     THEN /\ resp' = Response("remove_from_cart", 404, "cart_item_not_found", 0)
          /\ UNCHANGED cart
     ELSE /\ cart' = cart \ found
          /\ resp' = Response("remove_from_cart", 200, "ok", 0)

clear_cart(u) ==
  /\ UNCHANGED <<addVars, otpVars, authVars>>
  /\ UNCHANGED <<products, orders, nextOrderId, items, sess, nextCartId>>
  /\ cart' = cart \ QueryCart(u)
  /\ resp' = Response("clear_cart", 200, "ok", 0)

\* --------------------------------------------------- seller product routes
\* the id the autoincrement column of products hands out next (products
\* created here are never deleted)
NextProductId == 1 + Cardinality({p \in ProductIds : p \in Pids \/ products[p].exists})

\* POST /seller/products: the new row gets the stock of the form and the
\* stock_status that goes with it; a storage error rolls back
seller_create_product(seller_id, price, stock) ==
  /\ UNCHANGED <<addVars, otpVars, authVars>>
  /\ UNCHANGED <<cart, nextCartId, orders, nextOrderId, items, sess>>
  /\ \E storage_ok \in BOOLEAN :
       IF storage_ok
       THEN /\ products' = [products EXCEPT ![NextProductId] =
                  [id |-> NextProductId, exists |-> TRUE, seller_id |-> seller_id,
                   price |-> price, stock |-> stock,
                   stock_status |-> IF stock > 0 THEN "in_stock" ELSE "out_of_stock"]]
            /\ resp' = Response("create_product", 200, "ok", NextProductId)
       ELSE /\ UNCHANGED products
            /\ resp' = Response("create_product", 500, "storage_error", 0)

seller_update_product_keeps_status(p, seller_id, price, stock) ==
  /\ UNCHANGED <<addVars, otpVars, authVars>>
  /\ UNCHANGED <<cart, nextCartId, orders, nextOrderId, items, sess>>
  /\ IF QueryProduct(p) = {} \/ products[p].seller_id # seller_id
     THEN /\ resp' = Response("update_product", 404, "product_not_found", 0)
          /\ UNCHANGED products
     ELSE /\ products' = [products EXCEPT
                ![p].price = IF price # NoValue THEN price ELSE @,
                ![p].stock = IF stock # NoValue THEN stock ELSE @]
          /\ resp' = Response("update_product", 200, "ok", 0)

\* a price update that also rewrites the order items of the product
seller_update_product_reprices_items(p, seller_id, price, stock) ==
  /\ UNCHANGED <<addVars, otpVars, authVars>>
  /\ UNCHANGED <<cart, nextCartId, orders, nextOrderId, sess>>
  /\ IF QueryProduct(p) = {} \/ products[p].seller_id # seller_id
     THEN /\ resp' = Response("update_product", 404, "product_not_found", 0)
          /\ UNCHANGED <<products, items>>
     ELSE /\ products' = [products EXCEPT
                ![p].price = IF price # NoValue THEN price ELSE @,
                ![p].stock = IF stock # NoValue THEN stock ELSE @,
                ![p].stock_status =
                    IF stock # NoValue
                    THEN (IF stock > 0 THEN "in_stock" ELSE "out_of_stock")
                    ELSE @]
          /\ items' = {IF i.product_id = p /\ price # NoValue
                       THEN [i EXCEPT !.price = price, !.subtotal = price * i.quantity]
                       ELSE i : i \in items}
          /\ resp' = Response("update_product", 200, "ok", 0)

\* PUT /seller/products/{product_id}: price and stock are optional form
\* fields (NoValue = not sent); stock_status follows stock
seller_update_product(p, seller_id, price, stock) ==
  /\ UNCHANGED <<addVars, otpVars, authVars>>
  /\ UNCHANGED <<cart, nextCartId, orders, nextOrderId, items, sess>>
  /\ IF QueryProduct(p) = {} \/ products[p].seller_id # seller_id
     THEN /\ resp' = Response("update_product", 404, "product_not_found", 0)
          /\ UNCHANGED products
     ELSE /\ products' = [products EXCEPT
                ![p].price = IF price # NoValue THEN price ELSE @,
                ![p].stock = IF stock # NoValue THEN stock ELSE @,
                ![p].stock_status =
                    IF stock # NoValue
                    THEN (IF stock > 0 THEN "in_stock" ELSE "out_of_stock")
                    ELSE @]
          /\ resp' = Response("update_product", 200, "ok", 0)

\* PUT /products/{product_id} of the product routes: every field that was sent
\* is assigned as it is; the request sends stock_status alone
update_product(p, stock_status) ==
  /\ UNCHANGED <<addVars, otpVars, authVars>>
  /\ UNCHANGED <<cart, nextCartId, orders, nextOrderId, items, sess>>
  /\ IF QueryProduct(p) = {}
     THEN /\ resp' = Response("update_product", 404, "product_not_found", 0)
          /\ UNCHANGED products
     ELSE /\ products' = [products EXCEPT ![p].stock_status = stock_status]
          /\ resp' = Response("update_product", 200, "ok", 0)

\* DELETE /seller/products/{product_id}: the ORM cascades the delete to the
\* product's cart rows; order_items.product_id is NOT NULL with ondelete
\* RESTRICT, so a product with order items cannot go (IntegrityError -> 500)
seller_delete_product(p, seller_id) ==
  /\ UNCHANGED <<addVars, otpVars, authVars>>
  /\ UNCHANGED <<nextCartId, orders, nextOrderId, items, sess>>
  /\ IF QueryProduct(p) = {} \/ products[p].seller_id # seller_id
     THEN /\ resp' = Response("delete_product", 404, "product_not_found", 0)
          /\ UNCHANGED <<products, cart>>
     ELSE IF \E i \in items : i.product_id = p
     THEN /\ resp' = Response("delete_product", 500, "integrity_error", 0)
          /\ UNCHANGED <<products, cart>>
     ELSE /\ products' = [products EXCEPT ![p].exists = FALSE]
          /\ cart' = {r \in cart : r.product_id # p}
          /\ resp' = Response("delete_product", 200, "ok", 0)

\* ----------------------------------------------------------- order routes
\* float(product.price) * cart_item.quantity
LineSubtotal(line, prods) ==
  (CHOOSE x \in prods : x.id = line.product_id).price * line.quantity

RECURSIVE SumLines(_, _)
SumLines(lines, prods) ==
  IF lines = {} THEN 0
  ELSE LET l == MinId(lines) IN LineSubtotal(l, prods) + SumLines(lines \ {l}, prods)

\* totals that charge the flat shipping fee whatever the subtotal
calculate_order_totals_always_ships(cart_items, prods) ==
  LET subtotal == SumLines({l \in cart_items : QueryProduct(l.product_id) # {}}, prods)
      shipping_fee == FlatShippingFee * Unit
      tax_amount == (subtotal * TaxRatePercent) \div 100
  IN [subtotal |-> subtotal, shipping_fee |-> shipping_fee, tax_amount |-> tax_amount,
      discount_amount |-> 0,
      total_amount |-> subtotal + shipping_fee + tax_amount]

\* totals computed from the product rows as they are stored by then
calculate_order_totals_live_price(cart_items, prods) ==
  LET subtotal == SumLines({l \in cart_items : QueryProduct(l.product_id) # {}},
                           {[id |-> l.product_id, price |-> products[l.product_id].price]
                              : l \in cart_items})
      shipping_fee == IF subtotal < FreeShippingThreshold * Unit
                      THEN FlatShippingFee * Unit ELSE 0
      tax_amount == (subtotal * TaxRatePercent) \div 100
  IN [subtotal |-> subtotal, shipping_fee |-> shipping_fee, tax_amount |-> tax_amount,
      discount_amount |-> 0,
      total_amount |-> subtotal + shipping_fee + tax_amount]

\* calculate_order_totals: prods holds the Product objects the session has
\* loaded (its identity map); a line whose product row is gone is skipped
calculate_order_totals(cart_items, prods) ==
  LET subtotal == SumLines({l \in cart_items : QueryProduct(l.product_id) # {}}, prods)
      shipping_fee == IF subtotal < FreeShippingThreshold * Unit
                      THEN FlatShippingFee * Unit ELSE 0
      tax_amount == (subtotal * TaxRatePercent) \div 100
      discount == 0
  IN [subtotal |-> subtotal, shipping_fee |-> shipping_fee, tax_amount |-> tax_amount,
      discount_amount |-> discount,
      total_amount |-> subtotal + shipping_fee + tax_amount - discount]

\* a validation that holds the units back which stored orders and checkouts
\* past their validation have taken
FirstOffending_reserves_stock(cart_items) ==
  LET taken(p) == Cardinality({i \in items : i.product_id = p})
                  + Cardinality({s \in Sessions :
                       /\ sess[s].pc \in {"insert", "commit"}
                       /\ \E l \in sess[s].cart_items : l.product_id = p})
      bad == {l \in cart_items :
                \/ QueryProduct(l.product_id) = {}
                \/ products[l.product_id].stock_status = "out_of_stock"
                \/ products[l.product_id].stock <= taken(l.product_id)}
  IN IF bad = {} THEN {} ELSE {MinId(bad)}

\* a validation that only looks for missing products
FirstOffending_ignores_stock(cart_items) ==
  LET bad == {l \in cart_items : QueryProduct(l.product_id) = {}}
  IN IF bad = {} THEN {} ELSE {MinId(bad)}

\* STEP 4 of create_order: the first cart line (in row order) whose product is
\* missing or out of stock decides the error; {} when every line passes
FirstOffending(cart_items) ==
  LET bad == {l \in cart_items :
                \/ QueryProduct(l.product_id) = {}
                \/ products[l.product_id].stock_status = "out_of_stock"}
  IN IF bad = {} THEN {} ELSE {MinId(bad)}

\* generate_order_number draws six random characters: the draw either repeats
\* the number of a stored order or is new; every new number stands for the
\* same case and is written as the order's id
generate_order_number == {nextOrderId} \cup {o.order_number : o \in orders}

\* the Order row create_order adds (STEP 7); txn marks it as flushed by
\* session s and not yet committed.  seller_id is a column the seller routes
\* filter on and create_order never sets: its stored value is left open
\* (0 stands for NULL).
NewOrder(s, number, seller_id, totals) ==
  [id |-> nextOrderId, customer_id |-> customer[sess[s].user], seller_id |-> seller_id,
   order_number |-> number, status |-> "PENDING", payment_status |-> "PENDING",
   total_amount |-> Decimal2(totals.total_amount),
   shipping_fee |-> Decimal2(totals.shipping_fee),
   tax_amount |-> Decimal2(totals.tax_amount),
   discount_amount |-> Decimal2(totals.discount_amount),
   txn |-> s]

\* order items priced from the live product row instead of the loaded object
NewItems_live_price(s) ==
  {[id |-> Cardinality(items) + Cardinality({l2 \in sess[s].cart_items : l2.id <= l.id}),
    order_id |-> sess[s].order_id, product_id |-> l.product_id, quantity |-> l.quantity,
    price |-> Decimal2(products[l.product_id].price),
    subtotal |-> Decimal2(products[l.product_id].price * l.quantity)] : l \in sess[s].cart_items}

\* the OrderItem rows of STEP 8, one per cart line the session read
NewItems(s) ==
  {[id |-> Cardinality(items) + Cardinality({l2 \in sess[s].cart_items : l2.id <= l.id}),
    order_id |-> sess[s].order_id, product_id |-> l.product_id, quantity |-> l.quantity,
    price |-> Decimal2((CHOOSE x \in sess[s].prods : x.id = l.product_id).price),
    subtotal |-> Decimal2(LineSubtotal(l, sess[s].prods))] : l \in sess[s].cart_items}

\* a rollback that leaves the flushed Order row behind
Rollback_keeps_flushed(s) == orders

\* db.rollback(): the rows session s flushed and did not commit disappear
Rollback(s) == {o \in orders : o.txn # s}

\* db.commit(): the rows session s flushed become visible
Commit(s) == {IF o.txn = s THEN [o EXCEPT !.txn = 0] ELSE o : o \in orders}

\* a checkout that goes on with whatever the cart holds, lines or none
co_begin_any_cart(s, u) ==
  /\ UNCHANGED <<addVars, otpVars, authVars>>
  /\ sess[s].pc = "idle"
  /\ UNCHANGED <<products, cart, nextCartId, orders, nextOrderId, items>>
  /\ IF customer[u] = 0
     THEN /\ resp' = Response("create_order", 400, "no_customer_profile", 0)
          /\ UNCHANGED sess
     ELSE /\ sess' = [sess EXCEPT ![s] = [pc |-> "validate", user |-> u,
                         cart_items |-> QueryCart(u), prods |-> {}, order_id |-> 0]]
          /\ resp' = NoResp

\* STEPS 1-3: authenticate, require a customer profile, read the cart
co_begin(s, u) ==
  /\ UNCHANGED <<addVars, otpVars, authVars>>
  /\ sess[s].pc = "idle"
  /\ UNCHANGED <<products, cart, nextCartId, orders, nextOrderId, items>>
  /\ IF customer[u] = 0
     THEN /\ resp' = Response("create_order", 400, "no_customer_profile", 0)
          /\ UNCHANGED sess
     ELSE IF QueryCart(u) = {}
     THEN /\ resp' = Response("create_order", 400, "empty_cart", 0)
          /\ UNCHANGED sess
     ELSE /\ sess' = [sess EXCEPT ![s] = [pc |-> "validate", user |-> u,
                         cart_items |-> QueryCart(u), prods |-> {}, order_id |-> 0]]
          /\ resp' = NoResp

\* STEP 4: re-fetch every line's product and check availability
co_validate(s) ==
  /\ UNCHANGED <<addVars, otpVars, authVars>>
  /\ sess[s].pc = "validate"
  /\ UNCHANGED <<products, cart, nextCartId, orders, nextOrderId, items>>
  /\ LET bad == FirstOffending(sess[s].cart_items) IN
     IF bad # {}
     THEN LET l == MinId(bad) IN
          /\ resp' = IF QueryProduct(l.product_id) = {}
                     THEN Response("create_order", 404, "product_not_found", l.product_id)
                     ELSE Response("create_order", 400, "out_of_stock", l.product_id)
          /\ sess' = [sess EXCEPT ![s] = IdleSession]
     ELSE /\ sess' = [sess EXCEPT ![s].pc = "insert",
                         ![s].prods = {[id |-> l.product_id,
                                        price |-> products[l.product_id].price]
                                       : l \in sess[s].cart_items}]
          /\ resp' = NoResp

\* STEPS 5-7: totals, order number, db.add(new_order); db.flush(), for the
\* order number drawn and the fate of the storage.  The INSERT fails on a
\* duplicate order_number (unique index) or on a storage error.
co_insert_drawn(s, seller_ids, number, storage_ok) ==
  /\ UNCHANGED <<addVars, otpVars, authVars>>
  /\ sess[s].pc = "insert"
  /\ UNCHANGED <<products, cart, nextCartId, items>>
  /\ \E seller_id \in seller_ids :
       IF storage_ok /\ ~(\E o \in orders : o.order_number = number)
       THEN /\ orders' = orders \cup
                  {NewOrder(s, number, seller_id,
                            calculate_order_totals(sess[s].cart_items, sess[s].prods))}
            /\ nextOrderId' = nextOrderId + 1
            /\ sess' = [sess EXCEPT ![s].pc = "commit", ![s].order_id = nextOrderId]
            /\ resp' = NoResp
       ELSE /\ orders' = Rollback(s)
            /\ UNCHANGED nextOrderId
            /\ sess' = [sess EXCEPT ![s] = IdleSession]
            /\ resp' = Response("create_order", 500, "storage_error", 0)

\* STEPS 5-7 with whatever number generate_order_number draws and whether or
\* not the storage fails
co_insert(s, seller_ids) ==
  \E number \in generate_order_number, storage_ok \in BOOLEAN :
    co_insert_drawn(s, seller_ids, number, storage_ok)

\* a commit that takes the ordered units out of the stock
co_commit_decrements_stock(s) ==
  /\ UNCHANGED <<addVars, otpVars, authVars>>
  /\ sess[s].pc = "commit"
  /\ UNCHANGED <<nextCartId, nextOrderId>>
  /\ \E storage_ok \in BOOLEAN :
       IF storage_ok /\ \A l \in sess[s].cart_items : QueryProduct(l.product_id) # {}
       THEN /\ items' = items \cup NewItems(s)
            /\ products' = [p \in DOMAIN products |->
                  IF \E l \in sess[s].cart_items : l.product_id = p
                  THEN [products[p] EXCEPT !.stock = 0, !.stock_status = "out_of_stock"]
                  ELSE products[p]]
            /\ cart' = cart \ QueryCart(sess[s].user)
            /\ orders' = Commit(s)
            /\ sess' = [sess EXCEPT ![s] = IdleSession]
            /\ resp' = Response("create_order", 201, "ok", sess[s].order_id)
       ELSE /\ orders' = Rollback(s)
            /\ UNCHANGED <<items, cart, products>>
            /\ sess' = [sess EXCEPT ![s] = IdleSession]
            /\ resp' = Response("create_order", 500, "storage_error", 0)

\* STEPS 8-10: order items, DELETE of the user's cart rows, db.commit().  A
\* product row that is gone by now makes product.price raise; a storage error
\* may hit any statement.  Either way the except branch rolls back.
co_commit(s) ==
  /\ UNCHANGED <<addVars, otpVars, authVars>>
  /\ sess[s].pc = "commit"
  /\ UNCHANGED <<products, nextCartId, nextOrderId>>
  /\ \E storage_ok \in BOOLEAN :
       IF storage_ok /\ \A l \in sess[s].cart_items : QueryProduct(l.product_id) # {}
       THEN /\ items' = items \cup NewItems(s)
            /\ cart' = cart \ QueryCart(sess[s].user)
            /\ orders' = Commit(s)
            /\ sess' = [sess EXCEPT ![s] = IdleSession]
            /\ resp' = Response("create_order", 201, "ok", sess[s].order_id)
       ELSE /\ orders' = Rollback(s)
            /\ UNCHANGED <<items, cart>>
            /\ sess' = [sess EXCEPT ![s] = IdleSession]
            /\ resp' = Response("create_order", 500, "storage_error", 0)

\* a cancel that does not look at the order's status
cancel_order_any_status(u, oid) ==
  /\ UNCHANGED <<addVars, otpVars, authVars>>
  /\ UNCHANGED <<products, cart, nextCartId, nextOrderId, items, sess>>
  /\ IF customer[u] = 0
     THEN /\ resp' = Response("cancel_order", 400, "no_customer_profile", oid)
          /\ UNCHANGED orders
     ELSE LET found == {o \in Committed : o.id = oid /\ o.customer_id = customer[u]} IN
          IF found = {}
          THEN /\ resp' = Response("cancel_order", 404, "order_not_found", oid)
               /\ UNCHANGED orders
          ELSE LET order == MinId(found) IN
               /\ orders' = (orders \ {order}) \cup {[order EXCEPT !.status = "CANCELLED"]}
               /\ resp' = Response("cancel_order", 200, "ok", oid)

\* a cancel that finds the order by its id alone
cancel_order_any_customer(u, oid) ==
  /\ UNCHANGED <<addVars, otpVars, authVars>>
  /\ UNCHANGED <<products, cart, nextCartId, nextOrderId, items, sess>>
  /\ IF customer[u] = 0
     THEN /\ resp' = Response("cancel_order", 400, "no_customer_profile", oid)
          /\ UNCHANGED orders
     ELSE LET found == {o \in Committed : o.id = oid} IN
          IF found = {}
          THEN /\ resp' = Response("cancel_order", 404, "order_not_found", oid)
               /\ UNCHANGED orders
          ELSE LET order == MinId(found) IN
               IF order.status \notin {"PENDING", "PROCESSING"}
               THEN /\ resp' = Response("cancel_order", 400, "cannot_cancel", oid)
                    /\ UNCHANGED orders
               ELSE /\ orders' = (orders \ {order}) \cup
                                   {[order EXCEPT !.status = "CANCELLED"]}
                    /\ resp' = Response("cancel_order", 200, "ok", oid)

\* PATCH /orders/{order_id}/cancel
cancel_order(u, oid) ==
  /\ UNCHANGED <<addVars, otpVars, authVars>>
  /\ UNCHANGED <<products, cart, nextCartId, nextOrderId, items, sess>>
  /\ IF customer[u] = 0
     THEN /\ resp' = Response("cancel_order", 400, "no_customer_profile", oid)
          /\ UNCHANGED orders
     ELSE LET found == {o \in Committed : o.id = oid /\ o.customer_id = customer[u]} IN
          IF found = {}
          THEN /\ resp' = Response("cancel_order", 404, "order_not_found", oid)
               /\ UNCHANGED orders
          ELSE LET order == MinId(found) IN
               IF order.status \notin {"PENDING", "PROCESSING"}
               THEN /\ resp' = Response("cancel_order", 400, "cannot_cancel", oid)
                    /\ UNCHANGED orders
               ELSE /\ orders' = (orders \ {order}) \cup
                                   {[order EXCEPT !.status = "CANCELLED"]}
                    /\ resp' = Response("cancel_order", 200, "ok", oid)

\* PUT /seller/orders/{order_id}/status
update_order_status(oid, seller_id, status) ==
  /\ UNCHANGED <<addVars, otpVars, authVars>>
  /\ UNCHANGED <<products, cart, nextCartId, nextOrderId, items, sess>>
  /\ IF upper(status) \notin {"PENDING", "PROCESSING", "SHIPPED", "DELIVERED", "CANCELLED"}
     THEN /\ resp' = Response("update_order_status", 400, "invalid_status", oid)
          /\ UNCHANGED orders
     ELSE LET found == {o \in Committed : o.id = oid /\ o.seller_id = seller_id} IN
          IF found = {}
          THEN /\ resp' = Response("update_order_status", 404, "order_not_found", oid)
               /\ UNCHANGED orders
          ELSE LET order == MinId(found) IN
               /\ orders' = (orders \ {order}) \cup {[order EXCEPT !.status = upper(status)]}
               /\ resp' = Response("update_order_status", 200, "ok", oid)

RECURSIVE SumTotalAmount(_)
SumTotalAmount(os) ==
  IF os = {} THEN 0
  ELSE LET o == MinId(os) IN o.total_amount + SumTotalAmount(os \ {o})

\* an order query that is not filtered by customer
OrdersOfCustomer_everyone(customer_id) == Committed

\* db.query(Order).filter(Order.customer_id == customer_id).all()
OrdersOfCustomer(customer_id) == {o \in Committed : o.customer_id = customer_id}

\* the OrderStatsResponse of a customer; the average is the quotient on the
\* money grid (the route divides in floating point)
OrderStats(customer_id) ==
  LET os == OrdersOfCustomer(customer_id)
      n(st) == Cardinality({o \in os : o.status = st})
      delivered == n("DELIVERED")
      total_revenue == SumTotalAmount({o \in os : o.status = "DELIVERED"})
  IN [total_orders |-> Cardinality(os),
      pending_orders |-> n("PENDING"),
      processing_orders |-> n("PROCESSING"),
      shipped_orders |-> n("SHIPPED"),
      delivered_orders |-> delivered,
      cancelled_orders |-> n("CANCELLED"),
      total_revenue |-> total_revenue,
      average_order_value |-> IF delivered > 0 THEN total_revenue \div delivered ELSE 0]

\* GET /orders/stats/summary
get_order_stats(u) ==
  /\ UNCHANGED <<storeVars, addVars, otpVars, authVars>>
  /\ IF customer[u] = 0
     THEN resp' = Response("get_order_stats", 400, "no_customer_profile", 0)
     ELSE resp' = Response("get_order_stats", 200, "ok", OrderStats(customer[u]))

\* ------------------------------------------------------------- otp routes
\* db.query(OTP).filter(OTP.email == email, OTP.purpose == purpose)
QueryOtp(email, purpose) == {o \in otps : o.email = email /\ o.purpose = purpose}

\* rows a running store_otp has deleted and not yet committed: the rows stay
\* visible to the other sessions, and a statement that writes one of them waits
Locked == UNION {issues[s].deleted : s \in Sessions}

\* the comparisons counted for the rows of the table, without those of the
\* rows that are gone
Counted(table) ==
  [id \in DOMAIN compared |-> IF \E o \in table : o.id = id THEN compared[id] ELSE 0]

\* the OTP row store_otp adds
NewOtp(email, purpose, otp) ==
  [id |-> nextOtpId, email |-> email, purpose |-> purpose, otp_hash |-> sha256(otp),
   attempts |-> 0, expires_at |-> now + OtpExpiryMinutes, is_used |-> FALSE]

\* POST /send up to the DELETE statement of store_otp (otp_routes 32-43,
\* otp_manager 31-43): the user is looked up by email, a code is drawn, the
\* rows of (email, purpose) are deleted inside the transaction
send_otp_begin(s, email, purpose, otp) ==
  /\ issues[s].pc = "idle"
  /\ QueryOtp(email, purpose) \cap Locked = {}
  /\ UNCHANGED <<storeVars, addVars, authVars, otps, nextOtpId, now, verifies, compared>>
  /\ IF ~(\E u \in users : u.email = email)
     THEN /\ resp' = Response("send_otp", 404, "user_not_found", FALSE)
          /\ UNCHANGED issues
     ELSE /\ issues' = [issues EXCEPT ![s] =
                          [pc |-> "insert", op |-> "send_otp", email |-> email,
                           purpose |-> purpose, otp |-> otp,
                           deleted |-> QueryOtp(email, purpose)]]
          /\ resp' = NoResp

\* POST /resend up to the DELETE statement of store_otp: delete_otp removes the
\* rows of (email, purpose) and commits, then send_otp runs; its 404 is caught
\* by the except branch of resend_otp and answered as 500
resend_otp_begin(s, email, purpose, otp) ==
  /\ issues[s].pc = "idle"
  /\ QueryOtp(email, purpose) \cap Locked = {}
  /\ UNCHANGED <<storeVars, addVars, authVars, nextOtpId, now, verifies>>
  /\ otps' = otps \ QueryOtp(email, purpose)
  /\ compared' = Counted(otps')
  /\ IF ~(\E u \in users : u.email = email)
     THEN /\ resp' = Response("resend_otp", 500, "user_not_found", FALSE)
          /\ UNCHANGED issues
     ELSE /\ issues' = [issues EXCEPT ![s] =
                          [pc |-> "insert", op |-> "resend_otp", email |-> email,
                           purpose |-> purpose, otp |-> otp, deleted |-> {}]]
          /\ resp' = NoResp

\* the rest of store_otp and of the send (otp_manager 45-66, otp_routes 43-64):
\* INSERT and commit, then the e-mail.  A failed INSERT or commit rolls the
\* DELETE back; a failed e-mail leaves the stored code behind.
send_otp_finish(s) ==
  /\ issues[s].pc = "insert"
  /\ UNCHANGED <<storeVars, addVars, authVars, now, verifies>>
  /\ issues' = [issues EXCEPT ![s] = IdleIssue]
  /\ \E storage_ok \in BOOLEAN, mail_ok \in BOOLEAN :
       IF storage_ok
       THEN /\ otps' = (otps \ issues[s].deleted) \cup
                         {NewOtp(issues[s].email, issues[s].purpose, issues[s].otp)}
            /\ nextOtpId' = nextOtpId + 1
            /\ resp' = IF mail_ok
                       THEN Response(issues[s].op, 200, "sent", TRUE)
                       ELSE Response(issues[s].op, 500, "mail_error", FALSE)
       ELSE /\ UNCHANGED <<otps, nextOtpId>>
            /\ resp' = Response(issues[s].op, 500, "storage_error", FALSE)
  /\ compared' = Counted(otps')

\* a check of the attempts that never locks a code out
attempts_exhausted_never(otp_record) == FALSE

\* otp_record.attempts >= max_attempts
attempts_exhausted(otp_record) == otp_record.attempts >= max_attempts

\* a check of the lifetime that never finds a code expired
is_expired_never(otp_record) == FALSE

\* datetime.utcnow() > otp_record.expires_at
is_expired(otp_record) == now > otp_record.expires_at

\* a successful verification that leaves the record in the table
OtpsAfterVerified_keeps_record(otp_record) == otps

\* db.delete(otp_record); db.commit() after the hashes matched
OtpsAfterVerified(otp_record) == otps \ {otp_record}

\* POST /verify: verify_otp with max_attempts = 3.  The answer is always 200;
\* ref carries is_valid, detail names the branch taken.
verify_otp_code(email, otp, purpose) ==
  /\ UNCHANGED <<storeVars, addVars, authVars, nextOtpId, now, issues, verifies>>
  /\ LET found == {o \in QueryOtp(email, purpose) : o.is_used = FALSE} IN
     IF found = {}
     THEN /\ resp' = Response("verify_otp", 200, "not_found", FALSE)
          /\ UNCHANGED <<otps, compared>>
     ELSE LET otp_record == MinId(found) IN
          /\ otp_record \notin Locked
          /\ IF attempts_exhausted(otp_record)
             THEN /\ otps' = otps \ {otp_record}
                  /\ resp' = Response("verify_otp", 200, "max_attempts", FALSE)
                  /\ compared' = Counted(otps')
             ELSE IF is_expired(otp_record)
             THEN /\ otps' = otps \ {otp_record}
                  /\ resp' = Response("verify_otp", 200, "expired", FALSE)
                  /\ compared' = Counted(otps')
             ELSE IF sha256(otp) = otp_record.otp_hash
             THEN /\ otps' = OtpsAfterVerified(otp_record)
                  /\ resp' = Response("verify_otp", 200, "verified", TRUE)
                  /\ compared' = [Counted(otps') EXCEPT
                                    ![otp_record.id] = IF otp_record \in otps' THEN @ + 1 ELSE 0]
             ELSE /\ otps' = (otps \ {otp_record}) \cup
                                {[otp_record EXCEPT !.attempts = @ + 1]}
                  /\ resp' = Response("verify_otp", 200, "mismatch", FALSE)
                  /\ compared' = [compared EXCEPT ![otp_record.id] = @ + 1]

\* verify_otp up to the statement that writes (otp_manager 83-99): the record
\* is read; a record whose attempts are used up is deleted at once
verify_otp_read(s, email, otp, purpose) ==
  /\ issues[s].pc = "idle" /\ verifies[s].pc = "idle"
  /\ UNCHANGED <<storeVars, addVars, authVars, nextOtpId, now, issues>>
  /\ LET found == {o \in QueryOtp(email, purpose) : o.is_used = FALSE} IN
     IF found = {}
     THEN /\ resp' = Response("verify_otp", 200, "not_found", FALSE)
          /\ UNCHANGED <<otps, verifies, compared>>
     ELSE LET otp_record == MinId(found) IN
          IF attempts_exhausted(otp_record)
          THEN /\ otp_record \notin Locked
               /\ otps' = otps \ {otp_record}
               /\ compared' = Counted(otps')
               /\ resp' = Response("verify_otp", 200, "max_attempts", FALSE)
               /\ UNCHANGED verifies
          ELSE /\ verifies' = [verifies EXCEPT ![s] =
                                 [pc |-> "write", otp |-> otp, record |-> {otp_record}]]
               /\ resp' = NoResp
               /\ UNCHANGED <<otps, compared>>

\* the rest of verify_otp (otp_manager 101-118): UPDATE otps SET attempts = the
\* count that was read plus one, commit, then expiry and hash are checked on
\* the object in memory.  The UPDATE of a row that is gone raises
\* (StaleDataError) and the except branch answers False.
verify_otp_write(s) ==
  /\ verifies[s].pc = "write"
  /\ UNCHANGED <<storeVars, addVars, authVars, nextOtpId, now, issues>>
  /\ verifies' = [verifies EXCEPT ![s] = IdleVerify]
  /\ LET otp_record == MinId(verifies[s].record)
         stored == {o \in otps : o.id = otp_record.id}
     IN
     IF stored = {}
     THEN /\ resp' = Response("verify_otp", 200, "stale", FALSE)
          /\ UNCHANGED <<otps, compared>>
     ELSE /\ stored \cap Locked = {}
          /\ IF is_expired(otp_record)
             THEN /\ otps' = otps \ stored
                  /\ resp' = Response("verify_otp", 200, "expired", FALSE)
                  /\ compared' = Counted(otps')
             ELSE IF sha256(verifies[s].otp) = otp_record.otp_hash
             THEN /\ otps' = otps \ stored
                  /\ resp' = Response("verify_otp", 200, "verified", TRUE)
                  /\ compared' = Counted(otps')
             ELSE /\ otps' = (otps \ stored) \cup
                                {[o EXCEPT !.attempts = otp_record.attempts + 1] : o \in stored}
                  /\ resp' = Response("verify_otp", 200, "mismatch", FALSE)
                  /\ compared' = [compared EXCEPT ![otp_record.id] = @ + 1]

\* DELETE /cancel/{email}: delete_otp with the purpose given, or without one
\* (NoPurpose) for every purpose
cancel_otp(email, purpose) ==
  /\ UNCHANGED <<storeVars, addVars, authVars, nextOtpId, now, issues, verifies>>
  /\ LET found == {o \in otps : o.email = email /\ (purpose = NoPurpose \/ o.purpose = purpose)} IN
     /\ found \cap Locked = {}
     /\ otps' = otps \ found
     /\ compared' = Counted(otps')
     /\ resp' = Response("cancel_otp", 200, IF found # {} THEN "cancelled" ELSE "no_otp", TRUE)

\* cleanup_expired_otps
cleanup_expired_otps ==
  /\ UNCHANGED <<storeVars, addVars, authVars, nextOtpId, now, issues, verifies>>
  /\ LET found == {o \in otps : o.expires_at < now} IN
     /\ found \cap Locked = {}
     /\ otps' = otps \ found
     /\ compared' = Counted(otps')
  /\ resp' = NoResp

\* time passes
Tick ==
  /\ now + TickMinutes <= MaxTicks * TickMinutes
  /\ now' = now + TickMinutes
  /\ UNCHANGED <<storeVars, addVars, authVars, otps, nextOtpId, issues, verifies, compared>>
  /\ resp' = NoResp

\* ------------------------------------------------------------ auth routes
\* str.lower() on the roles a sign-up is given
lower(str) ==
  CASE str = "customer" -> "customer"
    [] str = "Seller"   -> "seller"
    [] str = "admin"    -> "admin"

\* get_user_by_username
get_user_by_username(username) == {u \in users : u.username = username}

\* get_user_by_email
get_user_by_email(email) == {u \in users : u.email = email}

\* a users table without its unique indexes
UniqueViolation_no_index(username, email) == FALSE

\* the INSERT into users hits the unique index of username or of email
UniqueViolation(username, email) ==
  get_user_by_username(username) # {} \/ get_user_by_email(email) # {}

\* POST /signup up to the role check (lines 170-192): the username and the
\* email must be free, the role must be customer or seller
sign_up_check(s, username, email, role) ==
  /\ signups[s].pc = "idle"
  /\ UNCHANGED <<storeVars, addVars, otpVars, users, sellers, customers, nextUserId>>
  /\ IF get_user_by_username(username) # {}
     THEN /\ resp' = Response("sign_up", 400, "username_registered", 0)
          /\ UNCHANGED signups
     ELSE IF get_user_by_email(email) # {}
     THEN /\ resp' = Response("sign_up", 400, "email_registered", 0)
          /\ UNCHANGED signups
     ELSE LET r == IF role # NoRole THEN lower(role) ELSE "customer" IN
          IF r \notin {"customer", "seller"}
          THEN /\ resp' = Response("sign_up", 400, "invalid_role", 0)
               /\ UNCHANGED signups
          ELSE /\ signups' = [signups EXCEPT ![s] =
                                 [pc |-> "store", username |-> username,
                                  email |-> email, role |-> r]]
               /\ resp' = NoResp

\* the rest of POST /signup (lines 194-264): INSERT of the User (flush), the
\* Seller or Customer row of its role, commit.  An INSERT that hits a unique
\* index, like any storage error, raises; the except branch rolls back and
\* answers 500.
sign_up_store(s) ==
  /\ signups[s].pc = "store"
  /\ UNCHANGED <<storeVars, addVars, otpVars>>
  /\ signups' = [signups EXCEPT ![s] = IdleSignUp]
  /\ \E storage_ok \in BOOLEAN :
       IF UniqueViolation(signups[s].username, signups[s].email)
       THEN /\ UNCHANGED <<users, sellers, customers, nextUserId>>
            /\ resp' = Response("sign_up", 500, "integrity_error", 0)
       ELSE IF ~storage_ok
       THEN /\ UNCHANGED <<users, sellers, customers, nextUserId>>
            /\ resp' = Response("sign_up", 500, "storage_error", 0)
       ELSE /\ users' = users \cup {[id |-> nextUserId, username |-> signups[s].username,
                                      email |-> signups[s].email, role |-> signups[s].role]}
            /\ nextUserId' = nextUserId + 1
            /\ sellers' = IF signups[s].role = "seller"
                          THEN sellers \cup {[user_id |-> nextUserId]} ELSE sellers
            /\ customers' = IF signups[s].role = "seller"
                            THEN customers ELSE customers \cup {[user_id |-> nextUserId]}
            /\ resp' = Response("sign_up", 201, "ok", nextUserId)

\* jwt.encode with SECRET_KEY: the token stands for its payload; valid tells
\* whether jwt.decode accepts it (signature of SECRET_KEY, exp not reached)
create_access_token(sub) == [sub |-> sub, type |-> "access", valid |-> TRUE]

create_refresh_token(sub) == [sub |-> sub, type |-> "refresh", valid |-> TRUE]

\* a validation that takes a token of any type
validate_token_any_type(token, token_type) ==
  IF ~token.valid THEN {}
  ELSE IF token.sub = NoSub THEN {}
  ELSE get_user_by_username(token.sub)

\* the validation get_current_user and refresh_token share (lines 145-159 and
\* 325-338): jwt.decode, the sub and type claims, the user of that name; the
\* users it yields are the caller, none means 401
validate_token(token, token_type) ==
  IF ~token.valid THEN {}
  ELSE IF token.sub = NoSub \/ token.type # token_type THEN {}
  ELSE get_user_by_username(token.sub)

\* GET /me: get_current_user on the bearer token
get_me(token) ==
  /\ UNCHANGED <<storeVars, addVars, otpVars, authVars>>
  /\ LET user == validate_token(token, "access") IN
     IF user = {}
     THEN resp' = Response("get_me", 401, "credentials", 0)
     ELSE resp' = Response("get_me", 200, "ok", MinId(user).id)

\* POST /refresh
refresh_token(token) ==
  /\ UNCHANGED <<storeVars, addVars, otpVars, authVars>>
  /\ LET user == validate_token(token, "refresh") IN
     IF user = {}
     THEN resp' = Response("refresh_token", 401, "refresh_token", 0)
     ELSE resp' = Response("refresh_token", 200, "ok",
                           [access_token |-> create_access_token(MinId(user).username),
                            refresh_token |-> create_refresh_token(MinId(user).username)])

\* ------------------------------------------------------------ next-state
\* the caps on the autoincrement counters and on a line's quantity
Bounded ==
  /\ nextCartId' <= MaxCartId + 1
  /\ nextOrderId' <= MaxOrderId + 1
  /\ \A r \in cart' : r.quantity <= MaxLineQty

\* the caps on the cart's autoincrement counter and on a line's quantity where
\* lines are filled up to the validator's maximum and beyond
BoundedCart ==
  /\ nextCartId' <= MaxCartId + 1
  /\ \A r \in cart' : r.quantity <= MaxQuantity + MaxLineQty

\* the cap on the autoincrement counter of otps
BoundedOtp == nextOtpId' <= MaxOtpId + 1

\* the cap on the autoincrement counter of users
BoundedUsers == nextUserId' <= MaxUserId + 1

\* the step answers 200 or 201
Accepted == resp'.code \in {200, 201}

\* every kind of request, for one customer, one product and one seller; of
\* the requests that are a single step only the accepted ones are followed
Next ==
  \/ \E q \in {1, 2} : add_to_cart(1, 1, q) /\ Accepted /\ Bounded
  \/ \E cid \in 1..MaxCartId, q \in {1, 2} : update_cart_item(1, cid, q) /\ Accepted
  \/ \E cid \in 1..MaxCartId : remove_from_cart(1, cid) /\ Accepted
  \/ clear_cart(1)
  \/ \E price \in {600 * Unit, NoValue}, stock \in {0, NoValue} :
       seller_update_product(1, 7, price, stock) /\ Accepted
  \/ seller_delete_product(1, 7) /\ Accepted
  \/ co_begin(1, 1)
  \/ co_validate(1)
  \/ co_insert(1, {7}) /\ Bounded
  \/ co_commit(1)
  \/ \E oid \in 1..MaxOrderId : cancel_order(1, oid) /\ Accepted
  \/ \E oid \in 1..MaxOrderId, st \in {"SHIPPED", "pending"} :
       update_order_status(oid, 7, st) /\ Accepted

Spec == Init /\ [][Next]_vars

\* checkout against a changing catalog: product 1 is repriced, product 2 runs
\* out of stock, is restocked or is deleted.  Of the cart and catalog requests
\* only the accepted ones are followed (a refused one changes no table).
NextCheckout ==
  \/ \E p \in Pids, q \in {1, 2} : add_to_cart(1, p, q) /\ Accepted /\ Bounded
  \/ \E price \in Prices : seller_update_product(1, 7, price, NoValue) /\ Accepted
  \/ \E stock \in Stocks : seller_update_product(2, 7, NoValue, stock) /\ Accepted
  \/ seller_delete_product(2, 7) /\ Accepted
  \/ \E u \in {1, 3} : co_begin(1, u)
  \/ co_validate(1)
  \/ co_insert(1, {0}) /\ Bounded
  \/ co_commit(1)

SpecCheckout == Init /\ [][NextCheckout]_vars

\* the order lifecycle: user 1 orders from seller 7, users 1 and 2 cancel,
\* seller 7 updates the status (of its status updates only the accepted ones
\* are followed)
NextOrders ==
  \/ add_to_cart(1, 1, 1) /\ Accepted /\ Bounded
  \/ co_begin(1, 1)
  \/ co_validate(1)
  \/ co_insert(1, {7}) /\ Bounded
  \/ co_commit(1)
  \/ \E oid \in 1..MaxOrderId, u \in CartUsers : cancel_order(u, oid)
  \/ \E oid \in 1..MaxOrderId, st \in StatusInputs :
       update_order_status(oid, 7, st) /\ Accepted

SpecOrders == Init /\ [][NextOrders]_vars

\* two requests of customer 1 check out at once
NextRace ==
  \/ \E q \in {1, 2} : add_to_cart(1, 1, q) /\ Accepted /\ Bounded
  \/ \E s \in Sessions : co_begin(s, 1)
  \/ \E s \in Sessions : co_validate(s)
  \/ \E s \in Sessions : co_insert(s, {0}) /\ Bounded
  \/ \E s \in Sessions : co_commit(s)

SpecRace == Init /\ [][NextRace]_vars

\* the cart of two users over a catalog whose product 2 runs out, is restocked
\* or is deleted
NextCart ==
  \/ \E u \in CartUsers, p \in Pids, q \in Qtys : add_to_cart(u, p, q) /\ Bounded
  \/ \E u \in CartUsers, cid \in 1..MaxCartId, q \in Qtys :
       update_cart_item(u, cid, q) /\ Bounded
  \/ \E u \in CartUsers, cid \in 1..MaxCartId : remove_from_cart(u, cid)
  \/ \E u \in CartUsers : clear_cart(u)
  \/ \E sid \in SellerIds, stock \in Stocks : seller_update_product(2, sid, NoValue, stock)
  \/ \E sid \in SellerIds : seller_delete_product(2, sid)

SpecCart == Init /\ [][NextCart]_vars

\* the cart of customer 1 at the limits of the quantity validator, over a
\* catalog whose product 2 changes its stock status
NextCartLimits ==
  \/ \E p \in Pids, q \in LimitQtys : add_to_cart(1, p, q) /\ BoundedCart
  \/ \E cid \in 1..MaxCartId, q \in LimitQtys : update_cart_item(1, cid, q)
  \/ \E cid \in 1..MaxCartId : remove_from_cart(1, cid) /\ Accepted
  \/ \E st \in StockStatus : update_product(2, st)

SpecCartLimits == Init /\ [][NextCartLimits]_vars

\* customer 1 looks at the cart while the seller reprices product 1 and
\* deletes product 2
NextCartView ==
  \/ \E p \in Pids, q \in {1, 2} : add_to_cart(1, p, q) /\ Accepted /\ Bounded
  \/ \E cid \in 1..MaxCartId : remove_from_cart(1, cid) /\ Accepted
  \/ \E price \in Prices : seller_update_product(1, 7, price, NoValue) /\ Accepted
  \/ seller_delete_product(2, 7) /\ Accepted
  \/ get_cart_read(1, 1)
  \/ get_cart_respond(1)

SpecCartView == Init /\ [][NextCartView]_vars

\* customer 1 sends add_to_cart requests that two server processes serve at
\* once, next to cart updates, removals and a checkout
NextCartRace ==
  \/ \E s \in Sessions, p \in Pids, q \in {1, 2} : add_to_cart_read(s, 1, p, q)
  \/ \E s \in Sessions : add_to_cart_commit(s) /\ Bounded
  \/ \E cid \in 1..MaxCartId, q \in {1, 2} : update_cart_item(1, cid, q) /\ Accepted
  \/ \E cid \in 1..MaxCartId : remove_from_cart(1, cid) /\ Accepted
  \/ clear_cart(1)
  \/ co_begin(1, 1)
  \/ co_validate(1)
  \/ co_insert(1, {0}) /\ Bounded
  \/ co_commit(1)

SpecCartRace == Init /\ [][NextCartRace]_vars

\* codes are issued, verified and cancelled for alice while two server
\* processes serve the send and resend requests
NextOtpRace ==
  \/ \E s \in Sessions, c \in Codes : send_otp_begin(s, "alice@relo", "verification", c)
  \/ \E s \in Sessions, c \in Codes : resend_otp_begin(s, "alice@relo", "verification", c)
  \/ \E s \in Sessions : send_otp_finish(s) /\ BoundedOtp
  \/ \E c \in Codes : verify_otp_code("alice@relo", c, "verification")
  \/ \E p \in {"verification", NoPurpose} : cancel_otp("alice@relo", p)

SpecOtpRace == Init /\ [][NextOtpRace]_vars

\* two server processes verify guesses of one code at once
NextVerifyRace ==
  \/ send_otp_begin(1, "alice@relo", "verification", "271828") /\ verifies[1].pc = "idle"
  \/ send_otp_finish(1) /\ BoundedOtp /\ Accepted
  \/ \E s \in Sessions, c \in Codes : verify_otp_read(s, "alice@relo", c, "verification")
  \/ \E s \in Sessions : verify_otp_write(s)

SpecVerifyRace == Init /\ [][NextVerifyRace]_vars

\* the life of a code: one process issues codes, anyone verifies, time passes
NextOtp ==
  \/ \E e \in Emails, p \in Purposes, c \in Codes : send_otp_begin(1, e, p, c)
  \/ resend_otp_begin(1, "alice@relo", "verification", "314159")
  \/ send_otp_finish(1) /\ BoundedOtp
  \/ \E p \in Purposes, c \in Codes : verify_otp_code("alice@relo", c, p)
  \/ cancel_otp("alice@relo", "password_reset")
  \/ cleanup_expired_otps
  \/ Tick

SpecOtp == Init /\ [][NextOtp]_vars

\* sign-ups served by two server processes at once
NextSignUp ==
  \/ \E s \in Sessions, n \in Usernames, e \in SignUpEmails, r \in Roles :
       sign_up_check(s, n, e, r)
  \/ \E s \in Sessions : sign_up_store(s) /\ BoundedUsers

SpecSignUp == Init /\ [][NextSignUp]_vars

\* tokens are presented to GET /me and POST /refresh while users sign up
NextTokens ==
  \/ \E n \in Usernames, e \in SignUpEmails, r \in {"customer", "Seller"} :
       sign_up_check(1, n, e, r) /\ signups' # signups
  \/ sign_up_store(1) /\ Accepted /\ BoundedUsers
  \/ \E t \in Tokens : get_me(t)
  \/ \E t \in Tokens : refresh_token(t)

SpecTokens == Init /\ [][NextTokens]_vars

\* customers 1 and 2 order from seller 7, the seller moves the orders on, the
\* customers cancel, and every user asks for the order statistics
\* customers 1 and 2 both want product 1, of which one unit is in stock;
\* request s is the checkout of customer s
NextLastUnit ==
  \/ \E u \in CartUsers : add_to_cart(u, 1, 1) /\ Accepted /\ Bounded
  \/ \E s \in Sessions : co_begin(s, s) /\ sess' # sess
  \/ \E s \in Sessions : co_validate(s)
  \/ \E s \in Sessions : co_insert(s, {0}) /\ Bounded
  \/ \E s \in Sessions : co_commit(s)
  \/ \E stock \in Stocks : seller_update_product(1, 7, NoValue, stock) /\ Accepted

SpecLastUnit == Init /\ [][NextLastUnit]_vars

\* users 1 and 2 fill and empty their carts, user 2 changes quantities, user
\* 1 checks out (of the checkouts only those that go through are followed)
NextCartIsolation ==
  \/ \E p \in Pids : add_to_cart(2, p, 1) /\ Accepted /\ Bounded
  \/ add_to_cart(1, 1, 1) /\ Accepted /\ Bounded
  \/ \E cid \in 1..MaxCartId : update_cart_item(2, cid, 2)
  \/ \E u \in CartUsers, cid \in 1..MaxCartId : remove_from_cart(u, cid)
  \/ \E u \in CartUsers : clear_cart(u)
  \/ co_begin(1, 1) /\ sess' # sess
  \/ co_validate(1)
  \/ co_insert(1, {0}) /\ Bounded /\ sess'[1].pc = "commit"
  \/ co_commit(1) /\ Accepted

SpecCartIsolation == Init /\ [][NextCartIsolation]_vars

BoundedProducts == NextProductId \in ProductIds

\* the catalog as the seller and the product routes maintain it
NextCatalog ==
  \/ BoundedProducts /\ \E stock \in {0, 2} : seller_create_product(7, 99 * Cent, stock)
  \/ \E p \in ProductIds, stock \in Stocks \cup {NoValue} :
       seller_update_product(p, 7, NoValue, stock) /\ Accepted
  \/ \E p \in ProductIds, stock_status \in {"out_of_stock", "pre_order"} :
       update_product(p, stock_status) /\ Accepted
  \/ seller_delete_product(1, 7) /\ Accepted

SpecCatalog == Init /\ [][NextCatalog]_vars

NextStats ==
  \/ \E u \in CartUsers, q \in {1, 2} : add_to_cart(u, 1, q) /\ Accepted /\ Bounded
  \/ \E u \in CartUsers : co_begin(1, u) /\ sess' # sess
  \/ co_validate(1)
  \/ co_insert(1, {7}) /\ Bounded /\ sess'[1].pc = "commit"
  \/ co_commit(1) /\ Accepted
  \/ \E oid \in 1..MaxOrderId, u \in CartUsers : cancel_order(u, oid) /\ Accepted
  \/ \E oid \in 1..MaxOrderId, st \in {"Processing", "SHIPPED", "delivered"} :
       update_order_status(oid, 7, st) /\ Accepted
  \/ \E u \in Users : get_order_stats(u)

SpecStats == Init /\ [][NextStats]_vars

\* ------------------------------------------------------------- properties
\* rows of cart that belong to user u after the step
CartOfAfter(u) == {r \in cart' : r.user_id = u}

C2_EmptyCartCheckoutFails ==
  [][\A s \in Sessions, u \in Users :
       (co_begin(s, u) /\ customer[u] # 0 /\ QueryCart(u) = {}) =>
         /\ resp' = Response("create_order", 400, "empty_cart", 0)
         /\ UNCHANGED <<orders, nextOrderId, items, cart, sess>>]_vars

\* the empty-cart answer, given while an earlier order of the customer exists
C2_Witness ==
  /\ resp.op = "create_order" /\ resp.code = 400 /\ resp.detail = "empty_cart"
  /\ QueryCart(1) = {}
  /\ Committed # {}

C4_OrderItemsImmutable ==
  [][\A i \in items : i \in items']_vars

\* an order item whose order the seller has moved on, whose product has been
\* repriced since, while the customer fills the cart again
C4_Witness ==
  \E i \in items, o \in Committed :
    /\ o.id = i.order_id
    /\ o.status = "SHIPPED"
    /\ products[i.product_id].price # i.price
    /\ cart # {}

\* sum of the stored line subtotals of a set of order items
RECURSIVE SumItems(_)
SumItems(its) ==
  IF its = {} THEN 0
  ELSE LET i == MinId(its) IN i.price * i.quantity + SumItems(its \ {i})

OutOfStockLines(s) ==
  {l \in sess[s].cart_items :
     products[l.product_id].exists /\ products[l.product_id].stock_status = "out_of_stock"}

\* C6: the validation step of a checkout reads the current product rows: when
\* a line's product is out of stock by then, the checkout ends there with an
\* error that names an offending product - the out-of-stock error whenever no
\* line's product is missing - and orders, order items and cart stay as they
\* were.
C6_RevalidatesStock ==
  [][\A s \in Sessions :
       (sess[s].pc = "validate" /\ sess'[s].pc # "validate" /\ OutOfStockLines(s) # {}) =>
         /\ sess'[s].pc = "idle"
         /\ resp'.op = "create_order" /\ resp'.code \in {400, 404}
         /\ (\A l \in sess[s].cart_items : products[l.product_id].exists) =>
              /\ resp'.code = 400 /\ resp'.detail = "out_of_stock"
              /\ resp'.ref \in {l.product_id : l \in OutOfStockLines(s)}
         /\ UNCHANGED <<orders, nextOrderId, items, cart>>]_vars

\* checkout refused for product 2, which ran out of stock after it was put in
\* the cart; the line is still there and no order exists
C6_Witness ==
  /\ resp = Response("create_order", 400, "out_of_stock", 2)
  /\ \E r \in cart : r.user_id = 1 /\ r.product_id = 2
  /\ products[2].stock_status = "out_of_stock"
  /\ orders = {} /\ items = {}

\* C7: two checkouts of one customer never both succeed on the same cart
\* contents: a checkout answers with success only while the cart rows it read
\* are still in the cart, not after another checkout has ordered and deleted
\* them.
C7_NoDoubleCheckout ==
  [][(resp'.op = "create_order" /\ resp'.code = 201) =>
       \E s \in Sessions :
         /\ sess[s].pc = "commit" /\ sess'[s].pc = "idle"
         /\ \A l \in sess[s].cart_items : \E r \in cart : r.id = l.id]_vars

\* order status changes the state machine allows
AllowedTransitions ==
  {<<"PENDING", "PROCESSING">>, <<"PROCESSING", "SHIPPED">>, <<"SHIPPED", "DELIVERED">>,
   <<"PENDING", "CANCELLED">>, <<"PROCESSING", "CANCELLED">>}

\* C8: cancel_order by the owner of an order sets the order to CANCELLED and
\* answers 200 when the order is PENDING or PROCESSING; when it is SHIPPED or
\* DELIVERED the request is refused with 400 and the order row stays as it was.
\* No other order changes.
C8_CancelByOwner ==
  [][\A u \in Users, oid \in 1..MaxOrderId :
       cancel_order(u, oid) =>
         \A o \in Committed :
           (o.id = oid /\ customer[u] # 0 /\ o.customer_id = customer[u]) =>
             /\ o.status \in {"PENDING", "PROCESSING"} =>
                  /\ resp'.code = 200
                  /\ orders' = (orders \ {o}) \cup {[o EXCEPT !.status = "CANCELLED"]}
             /\ o.status \in {"SHIPPED", "DELIVERED"} =>
                  /\ resp'.code = 400 /\ resp'.detail = "cannot_cancel"
                  /\ orders' = orders]_vars

\* the cancel of a SHIPPED order was just refused, next to an order that is
\* CANCELLED
C8_Witness ==
  /\ resp.op = "cancel_order" /\ resp.code = 400 /\ resp.detail = "cannot_cancel"
  /\ \E o \in Committed : o.id = resp.ref /\ o.status = "SHIPPED"
  /\ \E o \in Committed : o.id # resp.ref /\ o.status = "CANCELLED"

C10_AddMerges ==
  [][\A u \in Users, p \in Pids, q \in Qtys :
       (add_to_cart(u, p, q) /\ resp'.code = 201) =>
         LET before == {r \in cart : r.user_id = u /\ r.product_id = p}
             after == {r \in cart' : r.user_id = u /\ r.product_id = p}
         IN /\ Cardinality(after) = 1
            /\ \A r \in before : [r EXCEPT !.quantity = r.quantity + q] \in after
            /\ before = {} => \A r \in after : r.quantity = q /\ r.id = nextCartId
            /\ cart' \ after = cart \ before]_vars

\* user 1 holds one row of product 1 with quantity 2 and one of product 2, while
\* only two rows were ever inserted, and an add was just accepted
C10_Witness ==
  /\ resp.op = "add_to_cart" /\ resp.code = 201
  /\ \E r \in cart : r.user_id = 1 /\ r.product_id = 1 /\ r.quantity = 2
  /\ \E r \in cart : r.user_id = 1 /\ r.product_id = 2 /\ r.quantity = 1
  /\ nextCartId = 3

\* C11: the cart holds at most one row per (user, product), whatever the
\* interleaving of the add, update, remove, clear and checkout requests - two
\* add_to_cart requests of one user for one product served at once included.
C11_OneRowPerUserProduct ==
  \A r1 \in cart, r2 \in cart :
    (r1.user_id = r2.user_id /\ r1.product_id = r2.product_id) => r1.id = r2.id

\* C12: an add_to_cart for an existing product whose stock_status is not
\* in_stock - out_of_stock or pre_order - answers the out-of-stock error and
\* leaves the cart as it was.
C12_AddRefusedUnlessInStock ==
  [][\A u \in Users, p \in Pids, q \in LimitQtys :
       (/\ add_to_cart(u, p, q)
        /\ quantity_validator(q)
        /\ QueryProduct(p) # {}
        /\ products[p].stock_status # "in_stock") =>
         /\ resp' = Response("add_to_cart", 400, "out_of_stock", 0)
         /\ UNCHANGED <<cart, nextCartId>>]_vars

\* C13: the quantity of every cart row is at least 1 and at most 10: no
\* sequence of add and update requests, accepted or refused, leaves a row
\* outside that range.
C13_QuantityInRange ==
  \A r \in cart : MinQuantity <= r.quantity /\ r.quantity <= MaxQuantity

\* C14: the answer of GET /cart is computed from the product rows as they are
\* when it is given: its items are exactly the cart lines the request read
\* whose product exists, each with the product's current price and price x
\* quantity as subtotal; total_amount is the sum of those subtotals; a line
\* whose product is gone appears in neither, and the answer is still 200.
C14_CartViewFresh ==
  [][resp'.op = "get_cart" =>
       \E s \in Sessions :
         /\ sess[s].pc = "view" /\ sess'[s].pc = "idle"
         /\ resp'.code = 200
         /\ LET view == resp'.ref
                lines == {l \in sess[s].cart_items : products[l.product_id].exists}
            IN /\ {i.id : i \in view.items} = {l.id : l \in lines}
               /\ Cardinality(view.items) = Cardinality(lines)
               /\ \A i \in view.items : \E l \in lines :
                    /\ i.id = l.id /\ i.product_id = l.product_id
                    /\ i.quantity = l.quantity
                    /\ i.price = products[l.product_id].price
                    /\ i.subtotal = i.price * i.quantity
               /\ view.total_amount = SumItems(view.items)]_vars

\* a request has read two cart lines; since then product 2 was deleted and
\* product 1 repriced, and the view is about to be computed
C14_Witness ==
  /\ sess[1].pc = "view"
  /\ \E l \in sess[1].cart_items : ~products[l.product_id].exists
  /\ \E l \in sess[1].cart_items :
       /\ products[l.product_id].exists
       /\ products[l.product_id].price # InitialPrice[l.product_id]

C16_SingleUse ==
  [][\A e \in Emails, p \in Purposes, c \in Codes :
       verify_otp_code(e, c, p) =>
         /\ resp'.ref = TRUE => {o \in otps' : o.email = e /\ o.purpose = p} = {}
         /\ QueryOtp(e, p) = {} => (resp'.ref = FALSE /\ otps' = otps)]_vars

\* alice's code was just verified while a second, untouched record (another
\* purpose) is still stored
C16_Witness ==
  /\ resp = Response("verify_otp", 200, "verified", TRUE)
  /\ QueryOtp("alice@relo", "verification") = {}
  /\ nextOtpId = 3
  /\ Cardinality(otps) = 1

\* C17: a verify that finds the record of its (email, purpose) with three
\* attempts used answers failure, whatever the code - the right one before the
\* expiry included - and deletes the record, so that every later verify fails
\* until a new code is stored; a wrong code tried on an unexpired record with
\* fewer than three attempts used is what uses an attempt up.
C17_LockedAfterMaxAttempts ==
  [][\A e \in Emails, p \in Purposes, c \in Codes :
       verify_otp_code(e, c, p) =>
         \A o \in QueryOtp(e, p) :
           /\ o.attempts >= 3 =>
                /\ resp'.ref = FALSE
                /\ {x \in otps' : x.email = e /\ x.purpose = p} = {}
           /\ (o.attempts < 3 /\ now <= o.expires_at /\ o.otp_hash # sha256(c)) =>
                /\ resp'.ref = FALSE
                /\ otps' = (otps \ {o}) \cup {[o EXCEPT !.attempts = o.attempts + 1]}]_vars

\* the fourth verify of a code that is not expired was just refused for the
\* attempts used, and the record is gone
C17_Witness ==
  /\ resp = Response("verify_otp", 200, "max_attempts", FALSE)
  /\ otps = {}
  /\ nextOtpId = 2
  /\ now < OtpExpiryMinutes

\* C18: a verify that finds the record of its (email, purpose) expired answers
\* failure, whatever the code, and deletes the record, so that every later
\* verify fails until a new code is stored; a record is expired once the clock
\* is past the ten minutes after its issue, not before.
C18_ExpiredNeverVerifies ==
  [][\A e \in Emails, p \in Purposes, c \in Codes :
       verify_otp_code(e, c, p) =>
         \A o \in QueryOtp(e, p) :
           /\ now > o.expires_at =>
                /\ resp'.ref = FALSE
                /\ {x \in otps' : x.email = e /\ x.purpose = p} = {}
           /\ (now <= o.expires_at /\ o.attempts < 3 /\ o.otp_hash = sha256(c)) =>
                resp'.ref = TRUE]_vars

\* the only code ever issued was just refused as expired on its first verify
\* and the record is gone
C18_Witness ==
  /\ resp = Response("verify_otp", 200, "expired", FALSE)
  /\ otps = {}
  /\ nextOtpId = 2
  /\ now > OtpExpiryMinutes

\* C19: no two users share a username or an email, whatever the interleaving
\* of sign-ups; the step that ends a sign-up whose username or email is taken
\* by then, or whose role is neither customer nor seller, answers an error and
\* adds no User, Seller or Customer row.
C19_UniqueUsers ==
  /\ [](\A u1 \in users, u2 \in users :
          (u1.username = u2.username \/ u1.email = u2.email) => u1.id = u2.id)
  /\ [][\A s \in Sessions, n \in Usernames, e \in SignUpEmails, r \in Roles :
          /\ (/\ sign_up_check(s, n, e, r)
              /\ \/ \E u \in users : u.username = n \/ u.email = e
                 \/ r \in {"admin"}) =>
               /\ resp'.code = 400
               /\ UNCHANGED <<users, sellers, customers, signups>>
          /\ (/\ sign_up_store(s)
              /\ \E u \in users : u.username = signups[s].username
                                     \/ u.email = signups[s].email) =>
               /\ resp'.code \notin {200, 201}
               /\ UNCHANGED <<users, sellers, customers>>]_vars

\* a sign-up that had found its username and email free was just refused at the
\* INSERT: another request registered one of them in between
C19_Witness ==
  /\ resp = Response("sign_up", 500, "integrity_error", 0)
  /\ nextUserId = 5
  /\ Cardinality(users) = 4
  /\ \E u \in users : u.id = 4 /\ u.role = "seller" /\ [user_id |-> 4] \in sellers

\* C20: GET /me answers 200 exactly for a token that decodes, names an
\* existing user as its subject and has type access, and 401 for every other;
\* POST /refresh answers 200 exactly for a token that decodes, names an existing
\* user and has type refresh, and 401 for every other, and the tokens it hands
\* out are an access and a refresh token of that user.  So a refresh token is
\* never taken as a bearer token and an access token never by the refresh.
C20_TokenTypeRespected ==
  [][\A t \in Tokens :
       /\ get_me(t) =>
            /\ resp'.code \in {200, 401}
            /\ resp'.code = 200 <=>
                 (t.valid /\ t.type = "access" /\ \E u \in users : u.username = t.sub)
            /\ t.type = "refresh" => resp'.code = 401
       /\ refresh_token(t) =>
            /\ resp'.code \in {200, 401}
            /\ resp'.code = 200 <=>
                 (t.valid /\ t.type = "refresh" /\ \E u \in users : u.username = t.sub)
            /\ t.type = "access" => resp'.code = 401
            /\ resp'.code = 200 =>
                 /\ resp'.ref.access_token = [sub |-> t.sub, type |-> "access", valid |-> TRUE]
                 /\ resp'.ref.refresh_token = [sub |-> t.sub, type |-> "refresh", valid |-> TRUE]]_vars

\* POST /refresh just took a refresh token of dave, who signed up after the
\* store opened, and handed out a new pair of tokens
C20_Witness ==
  /\ resp.op = "refresh_token" /\ resp.code = 200
  /\ resp.ref.access_token = create_access_token("dave")
  /\ resp.ref.refresh_token = create_refresh_token("dave")
  /\ \E u \in users : u.username = "dave" /\ u.id = 4

\* C21: the order statistics of a customer count that customer's orders: the
\* five per-status counts are the numbers of its orders in each status and sum
\* to total_orders, total_revenue is the sum of total_amount over its DELIVERED
\* orders, and average_order_value is total_revenue divided by the number of
\* DELIVERED orders (to the precision of the money grid), 0 when there is none.
C21_OrderStats ==
  [][\A u \in Users :
       (get_order_stats(u) /\ customer[u] # 0) =>
         LET mine == {o \in Committed : o.customer_id = customer[u]}
             delivered == {o \in mine : o.status = "DELIVERED"}
             st == resp'.ref
         IN /\ resp'.code = 200
            /\ st.total_orders = Cardinality(mine)
            /\ st.pending_orders = Cardinality({o \in mine : o.status = "PENDING"})
            /\ st.processing_orders = Cardinality({o \in mine : o.status = "PROCESSING"})
            /\ st.shipped_orders = Cardinality({o \in mine : o.status = "SHIPPED"})
            /\ st.delivered_orders = Cardinality(delivered)
            /\ st.cancelled_orders = Cardinality({o \in mine : o.status = "CANCELLED"})
            /\ st.pending_orders + st.processing_orders + st.shipped_orders
                 + st.delivered_orders + st.cancelled_orders = st.total_orders
            /\ st.total_revenue = SumTotalAmount(delivered)
            /\ delivered = {} => st.average_order_value = 0
            /\ delivered # {} =>
                 /\ st.average_order_value * Cardinality(delivered) <= st.total_revenue
                 /\ st.total_revenue < (st.average_order_value + 1) * Cardinality(delivered)]_vars

\* the statistics just given count one order, DELIVERED, with its total as
\* revenue and as average, while another customer holds a DELIVERED order too
C21_Witness ==
  /\ resp.op = "get_order_stats" /\ resp.code = 200
  /\ resp.ref.total_orders = 1 /\ resp.ref.delivered_orders = 1
  /\ resp.ref.total_revenue > 0
  /\ resp.ref.average_order_value = resp.ref.total_revenue
  /\ Cardinality({o \in Committed : o.status = "DELIVERED"}) = 2

\* C22: no two orders share an order number, and a checkout whose generated
\* order number is the number of a stored order still goes on to store its
\* order (under another number) instead of ending in an error.
C22_OrderNumberRegenerated ==
  /\ [](\A o1 \in orders, o2 \in orders : o1.order_number = o2.order_number => o1.id = o2.id)
  /\ [][\A s \in Sessions, number \in 1..(MaxOrderId + 1) :
          (/\ co_insert_drawn(s, SellerIds \cup {0}, number, TRUE)
           /\ \E o \in orders : o.order_number = number) =>
            /\ sess'[s].pc = "commit"
            /\ Cardinality(orders') = Cardinality(orders) + 1]_vars

StockStatusAgrees(product) ==
  /\ product.stock_status = "out_of_stock" <=> product.stock = 0
  /\ product.stock_status = "in_stock" <=> product.stock > 0

C25_LastUnitNotReserved ==
  [][\A s \in Sessions :
       (/\ co_validate(s)
        /\ \A l \in sess[s].cart_items :
             /\ products[l.product_id].exists
             /\ products[l.product_id].stock_status # "out_of_stock") =>
         sess'[s].pc = "insert"]_vars

\* product 1 has one unit and is in stock; the checkouts of customers 1 and 2
\* have both stored an order with a line for it, the second just now
C25_Witness ==
  /\ products[1].exists /\ products[1].stock = 1 /\ products[1].stock_status = "in_stock"
  /\ resp.op = "create_order" /\ resp.code = 201
  /\ \E o1 \in Committed, o2 \in Committed :
       /\ o1.customer_id = customer[1] /\ o2.customer_id = customer[2]
       /\ \E i \in items : i.order_id = o1.id /\ i.product_id = 1
       /\ \E i \in items : i.order_id = o2.id /\ i.product_id = 1

\* C26: a POST /send that ends in an error - the e-mail is unknown, the
\* storage fails or the e-mail provider raises - leaves the otps table as it
\* was: no code that was not delivered is stored.
C26_FailedSendLeavesNoOtp ==
  [][/\ \A s \in Sessions, e \in Emails, p \in Purposes, c \in Codes :
          send_otp_begin(s, e, p, c) /\ resp'.code \in {404, 500} => otps' = otps
     /\ \A s \in Sessions :
          (/\ send_otp_finish(s)
           /\ issues[s].op = "send_otp"
           /\ resp'.code \in {404, 500}) => otps' = otps]_vars

\* C27: a checkout leaves the catalog alone: no step of create_order, whether
\* the request succeeds or fails, changes a product row (price, stock,
\* stock_status, existence), so that an order does not take its units out of
\* the stock and a later checkout of the same product is validated against the
\* same stock and stock_status.
C27_CheckoutKeepsCatalog ==
  [][\A s \in Sessions :
       (\/ \E u \in Users : co_begin(s, u)
        \/ co_validate(s)
        \/ co_insert(s, SellerIds \cup {0})
        \/ co_commit(s)) => products' = products]_vars

\* customer 1 has just ordered product 1 for the second time in a row; its
\* one unit is still in stock
C27_Witness ==
  /\ resp.op = "create_order" /\ resp.code = 201 /\ resp.ref = 2
  /\ \A o \in Committed :
       /\ o.customer_id = customer[1]
       /\ \E i \in items : i.order_id = o.id /\ i.product_id = 1
  /\ Cardinality(Committed) = 2
  /\ products[1].stock = 1 /\ products[1].stock_status = "in_stock"

\* the cart rows of everybody but user u
CartOfOthers(u) == {r \in cart : r.user_id # u}

\* C28: the cart operations of a user stay within the user's own rows: an
\* update (with a valid quantity) or a remove that names the id of another
\* user's cart row answers not-found and changes no cart row, and no add,
\* update, remove, clear or checkout of a user adds, changes or deletes a cart
\* row of another user.
C28_CartIsolation ==
  [][/\ \A u \in CartUsers, cid \in 1..MaxCartId, q \in {2} :
          update_cart_item(u, cid, q) =>
            /\ CartOfOthers(u)' = CartOfOthers(u)
            /\ (quantity_validator(q) /\ \E r \in CartOfOthers(u) : r.id = cid) =>
                 resp'.code = 404 /\ cart' = cart
     /\ \A u \in CartUsers, cid \in 1..MaxCartId :
          remove_from_cart(u, cid) =>
            /\ CartOfOthers(u)' = CartOfOthers(u)
            /\ (\E r \in CartOfOthers(u) : r.id = cid) => resp'.code = 404 /\ cart' = cart
     /\ \A u \in CartUsers, p \in Pids, q \in {1} :
          add_to_cart(u, p, q) => CartOfOthers(u)' = CartOfOthers(u)
     /\ \A u \in CartUsers : clear_cart(u) => CartOfOthers(u)' = CartOfOthers(u)
     /\ \A s \in Sessions :
          (\/ \E u \in CartUsers : co_begin(s, u)
           \/ co_validate(s)
           \/ co_insert(s, {0})) => cart' = cart
     /\ \A s \in Sessions, u \in CartUsers :
          co_commit(s) /\ sess[s].user = u => CartOfOthers(u)' = CartOfOthers(u)]_vars

\* every cart row belongs to user 2, who holds all the ids there are, and a
\* remove has just answered not-found: user 1 named a row of user 2
C28_Witness ==
  /\ resp.op = "remove_from_cart" /\ resp.code = 404
  /\ \A cid \in 1..MaxCartId : \E r \in cart : r.id = cid /\ r.user_id = 2
  /\ \A r \in cart : r.user_id = 2

\* C29: no more than max_attempts guesses are ever compared with the hash of
\* a stored code, verify requests that run at the same time included: the
\* count of the comparisons made with a stored row never exceeds max_attempts.
C29_AtMostMaxAttemptsCompared ==
  \A id \in DOMAIN compared : compared[id] <= max_attempts

\* C30: cancel_order changes at most the status of the order it names, and
\* only when the caller owns it: order items, cart and catalog stay as they
\* are, every other order keeps every field, the order named keeps every field
\* but status; and the request for an order of another customer, or for an
\* order that is CANCELLED already, is refused (404, 400) and changes nothing.
C30_CancelTouchesOnlyStatus ==
  [][\A u \in Users, oid \in 1..MaxOrderId :
       cancel_order(u, oid) =>
         /\ items' = items /\ cart' = cart /\ products' = products
         /\ Cardinality(orders') = Cardinality(orders)
         /\ \A o \in orders :
              /\ o.id # oid => o \in orders'
              /\ o.id = oid => \E o2 \in orders' : o2 = [o EXCEPT !.status = o2.status]
              /\ (o.id = oid /\ o.customer_id # customer[u]) =>
                   resp'.code = 404 /\ orders' = orders
              /\ (o.id = oid /\ o.customer_id = customer[u] /\ o.status = "CANCELLED") =>
                   resp'.code = 400 /\ orders' = orders]_vars

\* customer 2 has just asked to cancel a PENDING order of customer 1 and was
\* told that there is no such order
C30_Witness ==
  /\ resp.op = "cancel_order" /\ resp.code = 404
  /\ \E o \in Committed :
       /\ o.id = resp.ref /\ o.customer_id = customer[1] /\ o.status = "PENDING"
====
